---- MODULE Spec2Model ----
(***************************************************************************)
(* The notebook 06-Tables/astroquery.ipynb as a state machine.  The state  *)
(* is the kernel's namespace (the names the code cells bind), the error    *)
(* and the displayed value of the last executed cell, and the data the     *)
(* last plotting cell handed to matplotlib.  One action per code cell; a   *)
(* cell is the sequence of its statements and stops at the first           *)
(* exception, keeping the bindings made before it.                         *)
(*                                                                         *)
(* Floating point entries are IEEE-754 classes (NaN, signed zero, signed   *)
(* finite non-zero, signed infinity); finite magnitudes are taken in the   *)
(* range where products and quotients neither overflow nor underflow.      *)
(* Units are astropy composite units: a power for every named base unit,   *)
(* kept doubled so that a square root stays integral.                      *)
(***************************************************************************)
EXTENDS Integers, Sequences, FiniteSets, TLC

\* Largest number of rows of a catalog served with the standard schema.
MaxRows == 3

\* Largest number of rows of a catalog served with a changed schema.
MaxVariantRows == 1

(***************************************************************************)
(* IEEE-754 classes and the numpy ufuncs the notebook applies to them.     *)
(***************************************************************************)
NaN == [m |-> "nan", s |-> 1]
Zero(sg) == [m |-> "zero", s |-> sg]
Fin(sg) == [m |-> "fin", s |-> sg]
Inf(sg) == [m |-> "inf", s |-> sg]

FloatClass ==
  {NaN} \cup {[m |-> mm, s |-> sg] : mm \in {"zero", "fin", "inf"}, sg \in {-1, 1}}

\* np.isfinite on one entry
IsFinite(x) == x.m \in {"zero", "fin"}

\* x * y
Mul(x, y) ==
  IF x.m = "nan" \/ y.m = "nan" THEN NaN
  ELSE IF (x.m = "zero" /\ y.m = "inf") \/ (x.m = "inf" /\ y.m = "zero") THEN NaN
  ELSE IF x.m = "inf" \/ y.m = "inf" THEN Inf(x.s * y.s)
  ELSE IF x.m = "zero" \/ y.m = "zero" THEN Zero(x.s * y.s)
  ELSE Fin(x.s * y.s)

\* x / y (numpy: a division by zero is a warning, never an exception)
Div(x, y) ==
  IF x.m = "nan" \/ y.m = "nan" THEN NaN
  ELSE IF (x.m = "inf" /\ y.m = "inf") \/ (x.m = "zero" /\ y.m = "zero") THEN NaN
  ELSE IF x.m = "inf" \/ y.m = "zero" THEN Inf(x.s * y.s)
  ELSE IF x.m = "zero" \/ y.m = "inf" THEN Zero(x.s * y.s)
  ELSE Fin(x.s * y.s)

\* np.sqrt
Sqrt(x) ==
  IF x.m = "nan" THEN NaN
  ELSE IF x.m = "zero" THEN x
  ELSE IF x.s = -1 THEN NaN
  ELSE x

\* np.log10; the sign of the logarithm of a positive finite number is not
\* tracked: the result is classed "nan", "-inf", "finite" or "+inf".
Log10(x) ==
  IF x.m = "nan" THEN "nan"
  ELSE IF x.m = "zero" THEN "-inf"
  ELSE IF x.s = -1 THEN "nan"
  ELSE IF x.m = "inf" THEN "+inf"
  ELSE "finite"

(***************************************************************************)
(* Units.  A unit gives every named unit twice its power.                  *)
(***************************************************************************)
UnitNames == {"K", "solRad", "AU", "d", "m", "s", "jupiterRad", "jupiterMass", "kg"}

Dimensionless == [n \in UnitNames |-> 0]
U(name) == [n \in UnitNames |-> IF n = name THEN 2 ELSE 0]

UMul(u, v) == [n \in UnitNames |-> u[n] + v[n]]
UDiv(u, v) == [n \in UnitNames |-> u[n] - v[n]]
USqrt(u) == [n \in UnitNames |-> u[n] \div 2]

\* Unit.decompose(): the unit in SI base units (the scale goes to the values).
UDecompose(u) ==
  [b \in UnitNames |->
     CASE b = "K" -> u["K"]
       [] b = "m" -> u["solRad"] + u["AU"] + u["m"] + u["jupiterRad"]
       [] b = "s" -> u["d"] + u["s"]
       [] b = "kg" -> u["jupiterMass"] + u["kg"]
       [] OTHER -> 0]

\* The physical dimension of a unit: its powers of length, time, mass, temperature.
Dimension(u) == UDecompose(u)

(***************************************************************************)
(* Columns: a unit, a dtype ("numeric": a Quantity, "categorical": a       *)
(* string column) and the entries.  Quantity arithmetic is element-wise.   *)
(***************************************************************************)
Column(u, dt, vs) == [unit |-> u, dtype |-> dt, values |-> vs]
NoColumn == Column(Dimensionless, "numeric", <<>>)

\* 2 * a
QTwice(c) == [c EXCEPT !.values = [i \in 1..Len(c.values) |-> Mul(Fin(1), c.values[i])]]

\* rstar / (2 * a)
QDiv(c, d) ==
  Column(UDiv(c.unit, d.unit), "numeric",
         [i \in 1..Len(c.values) |-> Div(c.values[i], d.values[i])])

\* np.sqrt(q)
QSqrt(c) ==
  Column(USqrt(c.unit), "numeric", [i \in 1..Len(c.values) |-> Sqrt(c.values[i])])

\* teff * q
QMul(c, d) ==
  Column(UMul(c.unit, d.unit), "numeric",
         [i \in 1..Len(c.values) |-> Mul(c.values[i], d.values[i])])

\* q.decompose(): SI base units, every entry times the positive scale of the unit.
QDecompose(c) ==
  Column(UDecompose(c.unit), "numeric",
         [i \in 1..Len(c.values) |-> Mul(c.values[i], Fin(1))])

\* Mutant of Teq: the composite unit is left as it is (no decompose).
TeqNoDecompose(teff, rstar, a) == QMul(teff, QSqrt(QDiv(rstar, QTwice(a))))

\* (teff * np.sqrt(rstar / (2 * a))).decompose()
Teq(teff, rstar, a) == QDecompose(QMul(teff, QSqrt(QDiv(rstar, QTwice(a)))))

(***************************************************************************)
(* Masks.  A comparison gives an array of booleans, or the scalar False    *)
(* when numpy cannot compare the entries with the string.                  *)
(***************************************************************************)
ArrayMask(bits) == [shape |-> "array", bits |-> bits]
ScalarFalse == [shape |-> "scalar", bits |-> <<FALSE>>]

\* Mutant of CompareEq: membership of the column's first entry, not entry by entry.
CompareFirst(c, value, scalarCmp) ==
  ArrayMask([i \in 1..Len(c.values) |-> c.dtype = "categorical" /\ c.values[1] = value])

\* column == value.  A string column compares entry by entry.  A numeric
\* column compared with a string raises nothing: depending on the numpy and
\* astropy build the result is the scalar False or an array of False.
CompareEq(c, value, scalarCmp) ==
  IF c.dtype = "categorical"
  THEN ArrayMask([i \in 1..Len(c.values) |-> c.values[i] = value])
  ELSE IF scalarCmp THEN ScalarFalse
  ELSE ArrayMask([i \in 1..Len(c.values) |-> FALSE])

\* np.isfinite(q)
IsFiniteMask(c) == ArrayMask([i \in 1..Len(c.values) |-> IsFinite(c.values[i])])

RECURSIVE SelectBits(_, _)
SelectBits(vs, bits) ==
  IF vs = <<>> \/ bits = <<>> THEN <<>>
  ELSE IF Head(bits) THEN <<Head(vs)>> \o SelectBits(Tail(vs), Tail(bits))
  ELSE SelectBits(Tail(vs), Tail(bits))

\* Mutant of Slice: the right number of entries, taken from the front.
SliceFromFront(vs, mask) ==
  IF mask.shape = "scalar" THEN <<>>
  ELSE SubSeq(vs, 1, Len(SelectBits(vs, mask.bits)))

\* values[mask]: boolean-mask indexing; the scalar False selects nothing.
Slice(vs, mask) ==
  IF mask.shape = "scalar" THEN (IF mask.bits[1] THEN vs ELSE <<>>)
  ELSE SelectBits(vs, mask.bits)

\* q[mask]: the unit and the dtype stay.
QSlice(c, mask) == [c EXCEPT !.values = Slice(c.values, mask)]

\* np.log10(q.value)
Log10Values(c) == [i \in 1..Len(c.values) |-> Log10(c.values[i])]

(***************************************************************************)
(* Tables: a function from the column names present to columns.            *)
(***************************************************************************)
\* Mutant of GetItem: an absent name gives an empty column (dict.get with a default).
GetItemDefault(tbl, name) ==
  IF name \in DOMAIN tbl THEN [ok |-> TRUE, col |-> tbl[name]]
  ELSE [ok |-> TRUE, col |-> NoColumn]

\* archive[name]: the column, or KeyError (ok = FALSE) when the name is absent.
GetItem(tbl, name) ==
  IF name \in DOMAIN tbl THEN [ok |-> TRUE, col |-> tbl[name]]
  ELSE [ok |-> FALSE, col |-> NoColumn]

(***************************************************************************)
(* The table the download returns, the input of the notebook.  Its rows    *)
(* are drawn from a few sample rows (tables of up to MaxRows rows), and    *)
(* from every combination of IEEE classes of the three columns the         *)
(* equilibrium temperature reads (tables of one row).  The schema is an    *)
(* input too: a column may be missing, st_rad or pl_orbsmax may come in    *)
(* another unit, pl_discmethod may come as a number.  The call gives the   *)
(* same result at every execution within a session.                        *)
(***************************************************************************)
ColumnNames ==
  {"pl_discmethod", "pl_orbper", "pl_bmassj", "pl_radj", "st_teff", "st_rad", "pl_orbsmax"}

StdUnit(c) ==
  CASE c = "pl_orbper" -> U("d")
    [] c = "pl_bmassj" -> U("jupiterMass")
    [] c = "pl_radj" -> U("jupiterRad")
    [] c = "st_teff" -> U("K")
    [] c = "st_rad" -> U("solRad")
    [] c = "pl_orbsmax" -> U("AU")
    [] OTHER -> Dimensionless

Row(method, orbper, bmassj, radj, teff, rad, orbsmax) ==
  [c \in ColumnNames |->
     CASE c = "pl_discmethod" -> method
       [] c = "pl_orbper" -> orbper
       [] c = "pl_bmassj" -> bmassj
       [] c = "pl_radj" -> radj
       [] c = "st_teff" -> teff
       [] c = "st_rad" -> rad
       [] OTHER -> orbsmax]

RowSamples ==
  { Row("Transit", Fin(1), Fin(1), Fin(1), Fin(1), Fin(1), Fin(1)),
    Row("Radial Velocity", Fin(1), Fin(1), NaN, Fin(1), Fin(1), Inf(1)),
    Row("Transit", Zero(1), NaN, Fin(1), NaN, Fin(1), Fin(1)),
    Row("Imaging", Inf(1), Fin(1), Fin(1), Fin(1), NaN, Zero(1)),
    Row("Radial Velocity", NaN, Fin(1), Fin(-1), Fin(1), Fin(1), NaN) }

PhysRows ==
  { Row("Transit", Fin(1), Fin(1), Fin(1), t, r, a) :
      t \in FloatClass, r \in FloatClass, a \in FloatClass }

RowSeqs(S, n) == UNION {[1..k -> S] : k \in 0..n}

MkTable(rows) ==
  [c \in ColumnNames |->
     Column(StdUnit(c),
            IF c = "pl_discmethod" THEN "categorical" ELSE "numeric",
            [i \in 1..Len(rows) |-> rows[i][c]])]

SampleCatalogs == {MkTable(rows) : rows \in RowSeqs(RowSamples, MaxRows)}
PhysCatalogs == {MkTable(<<r>>) : r \in PhysRows}

Drop(tbl, c) == [d \in (DOMAIN tbl) \ {c} |-> tbl[d]]
WithUnit(tbl, c, u) == [tbl EXCEPT ![c].unit = u]
WithNumericMethod(tbl) ==
  [tbl EXCEPT !["pl_discmethod"] =
     Column(Dimensionless, "numeric",
            [i \in 1..Len(tbl["pl_discmethod"].values) |-> Fin(1)])]

VariantBase == {MkTable(rows) : rows \in RowSeqs(RowSamples, MaxVariantRows)}

Remotes ==
  SampleCatalogs \cup PhysCatalogs
  \cup {Drop(t, c) : t \in VariantBase, c \in ColumnNames}
  \cup {WithUnit(t, "pl_orbsmax", u) : t \in VariantBase, u \in {U("m"), U("d")}}
  \cup {WithUnit(WithUnit(t, "st_rad", U("m")), "pl_orbsmax", U("m")) : t \in VariantBase}
  \cup {WithUnit(t, "st_rad", U("kg")) : t \in VariantBase}
  \cup {WithNumericMethod(t) : t \in VariantBase}

\* The download returns one of the tables, or raises.
Responses == {<<t>> : t \in Remotes} \cup {<<>>}

RowCount(tbl) ==
  IF DOMAIN tbl = {} THEN 0 ELSE Len(tbl[CHOOSE c \in DOMAIN tbl : TRUE].values)

(***************************************************************************)
(* The kernel.                                                             *)
(***************************************************************************)
VARIABLES
  response, \* what the download call does in this session: <<table>>, the
            \* table it returns, or <<>>, it raises an exception
  ns,       \* the namespace: name -> <<>> (unbound) or <<value>>
  err,      \* the exception that stopped the last executed cell, or NoErr
  out,      \* the value the last executed cell displayed: <<>> or <<value>>
  figure,   \* the plotting calls of the last executed cell, with their data
  last,     \* the last executed cell
  pc        \* Run All: the next cell to execute (0: cells run on demand)

vars == <<response, ns, err, out, figure, last, pc>>

Names ==
  {"NasaExoplanetArchive", "archive", "plt", "np", "cax", "cbar", "ax",
   "transits", "rvs", "teff", "rstar", "a", "teq"}

NoErr == [kind |-> "none", what |-> ""]

\* A cell in execution: the namespace, the exception raised, the plotting
\* calls made and the displayed value so far.
Start(n) == [ns |-> n, err |-> NoErr, fig |-> <<>>, out |-> <<>>]

Raise(s, kind, what) == [s EXCEPT !.err = [kind |-> kind, what |-> what]]
Bind(s, name, v) == [s EXCEPT !.ns[name] = <<v>>]
Val(s, name) == s.ns[name][1]

\* Reading a name: NameError when it is not bound.
NeedName(s, name) ==
  IF s.err # NoErr THEN s
  ELSE IF s.ns[name] = <<>> THEN Raise(s, "NameError", name)
  ELSE s

\* Evaluating archive[col]: NameError, then KeyError.
NeedColumn(s, col) ==
  LET s1 == NeedName(s, "archive") IN
  IF s1.err # NoErr THEN s1
  ELSE IF ~GetItem(Val(s1, "archive"), col).ok THEN Raise(s1, "KeyError", col)
  ELSE s1

Col(s, col) == GetItem(Val(s, "archive"), col).col

(***************************************************************************)
(* Cell 1: the import and the download.                                    *)
(***************************************************************************)
StmtImportArchive(s) == Bind(s, "NasaExoplanetArchive", "class")

\* archive = NasaExoplanetArchive.get_confirmed_planets_table(all_columns=True)
\* The call is the library's: what it returns, or that it raises, is an input
\* (resp).  An assignment whose right-hand side raises binds nothing.
StmtFetch(s, resp) ==
  LET s1 == NeedName(s, "NasaExoplanetArchive") IN
  IF s1.err # NoErr THEN s1
  ELSE IF resp = <<>> THEN Raise(s1, "Exception", "get_confirmed_planets_table")
  ELSE Bind(s1, "archive", resp[1])

RunCell1(n, resp) == StmtFetch(StmtImportArchive(Start(n)), resp)

(***************************************************************************)
(* Cell 2: archive.  Cell 3: archive['pl_orbper'].                         *)
(***************************************************************************)
StmtShowArchive(s) ==
  LET s1 == NeedName(s, "archive") IN
  IF s1.err # NoErr THEN s1 ELSE [s1 EXCEPT !.out = <<Val(s1, "archive")>>]

RunCell2(n) == StmtShowArchive(Start(n))

StmtShowColumn(s) ==
  LET s1 == NeedColumn(s, "pl_orbper") IN
  IF s1.err # NoErr THEN s1 ELSE [s1 EXCEPT !.out = <<Col(s1, "pl_orbper")>>]

RunCell3(n) == StmtShowColumn(Start(n))

(***************************************************************************)
(* Cell 4: the mass-radius diagram.                                        *)
(***************************************************************************)
Series(kind, x, y, c) == [kind |-> kind, x |-> x, y |-> y, c |-> c]

\* import matplotlib.pyplot as plt
StmtImportPlt(s) == IF s.err # NoErr THEN s ELSE Bind(s, "plt", "module")

\* cax = plt.scatter(np.log10(archive['pl_bmassj'].value), archive['pl_radj'],
\*                   c=archive['st_teff'], vmin=3000, vmax=8000)
StmtMassRadius(s) ==
  LET s1 == NeedColumn(NeedColumn(NeedColumn(NeedName(NeedName(s,
              "plt"), "np"), "pl_bmassj"), "pl_radj"), "st_teff")
  IN IF s1.err # NoErr THEN s1
     ELSE Bind([s1 EXCEPT !.fig = Append(@,
                  Series("scatter", Log10Values(Col(s1, "pl_bmassj")),
                         Col(s1, "pl_radj").values, Col(s1, "st_teff").values))],
               "cax", "PathCollection")

\* cbar = plt.colorbar(cax, ...); ax = plt.gca(); ax.set(...)
StmtColorbar(s) ==
  LET s1 == NeedName(NeedName(s, "plt"), "cax") IN
  IF s1.err # NoErr THEN s1
  ELSE [Bind(Bind(s1, "cbar", "Colorbar"), "ax", "Axes") EXCEPT !.out = <<"artists">>]

RunCell4(n) == StmtColorbar(StmtMassRadius(StmtImportPlt(Start(n))))

(***************************************************************************)
(* Cell 5: the discovery diagram.                                          *)
(***************************************************************************)
\* transits = archive['pl_discmethod'] == 'Transit'
StmtTransits(s, scalarCmp) ==
  LET s1 == NeedColumn(s, "pl_discmethod") IN
  IF s1.err # NoErr THEN s1
  ELSE Bind(s1, "transits", CompareEq(Col(s1, "pl_discmethod"), "Transit", scalarCmp))

\* rvs = archive['pl_discmethod'] == 'Radial Velocity'
StmtRvs(s, scalarCmp) ==
  LET s1 == NeedColumn(s, "pl_discmethod") IN
  IF s1.err # NoErr THEN s1
  ELSE Bind(s1, "rvs", CompareEq(Col(s1, "pl_discmethod"), "Radial Velocity", scalarCmp))

\* plt.scatter(np.log10(archive['pl_orbper'][mask].value), archive['pl_radj'][mask], ...)
StmtScatterMasked(s, mask) ==
  LET s1 == NeedColumn(NeedName(NeedName(s, "plt"), "np"), "pl_orbper")
      s2 == NeedColumn(NeedName(s1, mask), "pl_radj")
  IN IF s2.err # NoErr THEN s2
     ELSE [s2 EXCEPT !.fig = Append(@,
             Series("scatter",
                    Log10Values(QSlice(Col(s2, "pl_orbper"), Val(s2, mask))),
                    QSlice(Col(s2, "pl_radj"), Val(s2, mask)).values,
                    <<>>))]

\* plt.gca().set(...); plt.legend(loc='upper right')
StmtLegend(s) ==
  LET s1 == NeedName(s, "plt") IN
  IF s1.err # NoErr THEN s1 ELSE [s1 EXCEPT !.out = <<"Legend">>]

RunCell5(n, scalarCmp) ==
  StmtLegend(StmtScatterMasked(StmtScatterMasked(
    StmtRvs(StmtTransits(Start(n), scalarCmp), scalarCmp), "transits"), "rvs"))

(***************************************************************************)
(* Cell 6: the equilibrium temperature and its histogram.                  *)
(***************************************************************************)
\* name = archive[col]
StmtColumn(s, name, col) ==
  LET s1 == NeedColumn(s, col) IN
  IF s1.err # NoErr THEN s1 ELSE Bind(s1, name, Col(s1, col))

\* teq = (teff * np.sqrt(rstar / (2 * a))).decompose()
StmtTeq(s) ==
  LET s1 == NeedName(NeedName(NeedName(NeedName(s, "teff"), "np"), "rstar"), "a") IN
  IF s1.err # NoErr THEN s1
  ELSE Bind(s1, "teq", Teq(Val(s1, "teff"), Val(s1, "rstar"), Val(s1, "a")))

\* plt.hist(teq.value[np.isfinite(teq)], log=True, bins=50, range=[10, 5000])
StmtHist(s) ==
  LET s1 == NeedName(NeedName(NeedName(s, "plt"), "teq"), "np") IN
  IF s1.err # NoErr THEN s1
  ELSE [s1 EXCEPT !.fig = Append(@,
          Series("hist", Slice(Val(s1, "teq").values, IsFiniteMask(Val(s1, "teq"))),
                 <<>>, <<>>))]

\* plt.gca().set(xlabel=..., ylabel='Frequency')
StmtLabels(s) ==
  LET s1 == NeedName(s, "plt") IN
  IF s1.err # NoErr THEN s1 ELSE [s1 EXCEPT !.out = <<"artists">>]

RunCell6(n) ==
  StmtLabels(StmtHist(StmtTeq(
    StmtColumn(StmtColumn(StmtColumn(Start(n),
      "teff", "st_teff"), "rstar", "st_rad"), "a", "pl_orbsmax"))))

(***************************************************************************)
(* The actions: executing a cell.                                          *)
(***************************************************************************)
Commit(s, cell) ==
  /\ ns' = s.ns
  /\ err' = s.err
  /\ out' = s.out
  /\ figure' = s.fig
  /\ last' = cell
  /\ UNCHANGED response

Cell1 == Commit(RunCell1(ns, response), 1)
Cell2 == Commit(RunCell2(ns), 2)
Cell3 == Commit(RunCell3(ns), 3)
Cell4 == Commit(RunCell4(ns), 4)
Cell5 == \E scalarCmp \in BOOLEAN : Commit(RunCell5(ns, scalarCmp), 5)
Cell6 == Commit(RunCell6(ns), 6)

\* A fresh kernel.  The notebook reads np and never imports it, so it runs
\* only in a kernel that loaded numpy as np at start-up (pylab mode, a start-up
\* file); Init takes both kernels, the empty one and the one with np bound.
EmptyNs == [n \in Names |-> <<>>]

Init ==
  /\ response \in Responses
  /\ ns \in {EmptyNs, [EmptyNs EXCEPT !["np"] = <<"module">>]}
  /\ err = NoErr
  /\ out = <<>>
  /\ figure = <<>>
  /\ last = 0
  /\ pc = 0

\* Cells executed on demand, in any order, any number of times.
Next ==
  \/ Cell1 /\ UNCHANGED pc
  \/ Cell2 /\ UNCHANGED pc
  \/ Cell3 /\ UNCHANGED pc
  \/ Cell4 /\ UNCHANGED pc
  \/ Cell5 /\ UNCHANGED pc
  \/ Cell6 /\ UNCHANGED pc

Spec == Init /\ [][Next]_vars

\* Restart and run every cell once, top to bottom.
InitRunAll ==
  /\ response \in Responses
  /\ ns = EmptyNs
  /\ err = NoErr
  /\ out = <<>>
  /\ figure = <<>>
  /\ last = 0
  /\ pc = 1

NextRunAll ==
  \/ pc = 1 /\ Cell1 /\ pc' = 2
  \/ pc = 2 /\ Cell2 /\ pc' = 3
  \/ pc = 3 /\ Cell3 /\ pc' = 4
  \/ pc = 4 /\ Cell4 /\ pc' = 5
  \/ pc = 5 /\ Cell5 /\ pc' = 6
  \/ pc = 6 /\ Cell6 /\ pc' = 7

SpecRunAll == InitRunAll /\ [][NextRunAll]_vars

(***************************************************************************)
(* Properties.                                                             *)
(***************************************************************************)
Bound(name) == ns[name] # <<>>
Archive == ns["archive"][1]
Has(col) == Bound("archive") /\ col \in DOMAIN Archive

CountTrue(bits) == Cardinality({i \in 1..Len(bits) : bits[i]})

\* The position of the j-th true entry of bits.
TrueIdx(bits, j) ==
  CHOOSE i \in 1..Len(bits) : bits[i] /\ Cardinality({k \in 1..i : bits[k]}) = j

\* The mask of the k-th scatter call of cell 5.
MaskOfCall(k) == IF k = 1 THEN ns["transits"][1] ELSE ns["rvs"][1]

\* C1: after the discovery diagram cell, for each of its two masks of the
\* table's length, the two masked columns handed to the plot have as many
\* entries as the mask has true entries, and entry j of each is the column's
\* entry at the position of the mask's j-th true entry.
C1_MaskedColumns ==
  (last = 5 /\ err = NoErr) =>
    \A k \in 1..Len(figure) :
      LET m == MaskOfCall(k) IN
      (m.shape = "array" /\ Len(m.bits) = RowCount(Archive)) =>
        /\ Len(figure[k].x) = CountTrue(m.bits)
        /\ Len(figure[k].y) = CountTrue(m.bits)
        /\ \A j \in 1..CountTrue(m.bits) :
             /\ figure[k].y[j] = Archive["pl_radj"].values[TrueIdx(m.bits, j)]
             /\ figure[k].x[j] = Log10(Archive["pl_orbper"].values[TrueIdx(m.bits, j)])

\* A three-row table whose first row is dropped and whose other rows are kept.
C1_Witness ==
  /\ last = 5 /\ err = NoErr /\ Len(figure) = 2
  /\ ns["rvs"][1] = ArrayMask(<<FALSE, TRUE, TRUE>>)
  /\ Len(figure[2].y) = 2
  /\ figure[2].y[1] # Archive["pl_radj"].values[1]

\* C4 as stated: the mask of a string column marks the rows equal to the
\* value, and a column that is not a string column ends in a type error
\* and no mask.
C4_Original ==
  /\ (Bound("transits") /\ Archive["pl_discmethod"].dtype = "categorical") =>
       LET m == ns["transits"][1] c == Archive["pl_discmethod"] IN
       /\ m.shape = "array" /\ Len(m.bits) = RowCount(Archive)
       /\ \A i \in 1..Len(m.bits) : m.bits[i] <=> (c.values[i] = "Transit")
  /\ (last = 5 /\ Has("pl_discmethod") /\ Archive["pl_discmethod"].dtype # "categorical"
        /\ RowCount(Archive) > 0 /\ Bound("plt") /\ Bound("np")) =>
       (err.kind = "TypeError" /\ ~Bound("transits"))

\* C4, amended: the mask of a string column marks the rows equal to the
\* value; on a column that is not a string column the comparison raises
\* nothing and gives a result without a true entry (False, or all False).
C4_Amended ==
  /\ (Bound("transits") /\ Archive["pl_discmethod"].dtype = "categorical") =>
       LET m == ns["transits"][1] c == Archive["pl_discmethod"] IN
       /\ m.shape = "array" /\ Len(m.bits) = RowCount(Archive)
       /\ \A i \in 1..Len(m.bits) : m.bits[i] <=> (c.values[i] = "Transit")
  /\ (Bound("rvs") /\ Archive["pl_discmethod"].dtype = "categorical") =>
       LET m == ns["rvs"][1] c == Archive["pl_discmethod"] IN
       /\ m.shape = "array" /\ Len(m.bits) = RowCount(Archive)
       /\ \A i \in 1..Len(m.bits) : m.bits[i] <=> (c.values[i] = "Radial Velocity")
  /\ (last = 5 /\ Has("pl_discmethod") /\ Archive["pl_discmethod"].dtype # "categorical") =>
       /\ err.kind \in {"none", "NameError", "KeyError"}
       /\ Bound("transits") /\ Bound("rvs")
       /\ CountTrue(ns["transits"][1].bits) = 0
       /\ CountTrue(ns["rvs"][1].bits) = 0

\* The spec's scenario, and a numeric pl_discmethod compared without an error.
C4_Witness ==
  /\ last = 5 /\ err = NoErr
  /\ Archive["pl_discmethod"].values = <<"Transit", "Radial Velocity", "Transit">>
  /\ ns["transits"][1] = ArrayMask(<<TRUE, FALSE, TRUE>>)

C4_WitnessNumeric ==
  /\ last = 5 /\ err = NoErr
  /\ Archive["pl_discmethod"].dtype = "numeric"
  /\ RowCount(Archive) = 1
  /\ ns["transits"][1] = ScalarFalse

TeqInputs == {"st_teff", "st_rad", "pl_orbsmax"}
TeqReady == Bound("archive") /\ TeqInputs \subseteq DOMAIN Archive

\* Row i of the three inputs of the equilibrium temperature.
InTeff(i) == Archive["st_teff"].values[i]
InRad(i) == Archive["st_rad"].values[i]
InOrb(i) == Archive["pl_orbsmax"].values[i]
TeqVal(i) == ns["teq"][1].values[i]

\* Cell 6 is stopped only by a name that is not bound or a column that is
\* absent, never by a value; with the names and columns there it binds teq,
\* one entry per row.
TeqNeverFailsOnValues ==
  /\ (last = 6) => err.kind \in {"none", "NameError", "KeyError"}
  /\ (last = 6 /\ TeqReady /\ Bound("np")) => Bound("teq")
  /\ (last = 6 /\ TeqReady /\ Bound("np") /\ Bound("plt")) => err = NoErr
  /\ Bound("teq") => Len(ns["teq"][1].values) = RowCount(Archive)

\* C2: a row with a non-finite st_teff, st_rad or pl_orbsmax has a
\* non-finite equilibrium temperature, and no value makes the cell fail.
C2_Original ==
  /\ TeqNeverFailsOnValues
  /\ Bound("teq") =>
       \A i \in 1..RowCount(Archive) :
         (~IsFinite(InTeff(i)) \/ ~IsFinite(InRad(i)) \/ ~IsFinite(InOrb(i)))
           => ~IsFinite(TeqVal(i))

SameDimension == Dimension(Archive["st_rad"].unit) = Dimension(Archive["pl_orbsmax"].unit)

\* C3 as stated: st_rad and pl_orbsmax of different dimensions stop the
\* computation with a units error and no teq; of the same dimension, teq has
\* the dimension of st_teff.
C3_Original ==
  /\ (last = 6 /\ TeqReady /\ Bound("np") /\ Bound("plt") /\ ~SameDimension) =>
       (err.kind = "UnitsError" /\ ~Bound("teq"))
  /\ (Bound("teq") /\ SameDimension) =>
       Dimension(ns["teq"][1].unit) = Dimension(Archive["st_teff"].unit)

\* C3, amended: the ratio is formed in the columns' own units and the
\* product is reduced to SI base units afterwards; no unit stops the cell.
\* With st_rad and pl_orbsmax of the same dimension teq is in kelvin,
\* whatever their units; otherwise teq is still computed, in kelvin times
\* the square root of the ratio of their base units, which is no temperature.
C3_Amended ==
  /\ (last = 6) => err.kind \in {"none", "NameError", "KeyError"}
  /\ (last = 6 /\ TeqReady /\ Bound("np")) => Bound("teq")
  /\ (Bound("teq") /\ SameDimension) => ns["teq"][1].unit = U("K")
  /\ (Bound("teq") /\ ~SameDimension) =>
       /\ ns["teq"][1].unit =
            UMul(U("K"), USqrt(UDiv(UDecompose(Archive["st_rad"].unit),
                                    UDecompose(Archive["pl_orbsmax"].unit))))
       /\ Dimension(ns["teq"][1].unit) # Dimension(Archive["st_teff"].unit)

\* Solar radii over astronomical units, reduced to kelvin.
C3_Witness ==
  /\ last = 6 /\ err = NoErr /\ RowCount(Archive) = 1
  /\ Archive["st_rad"].unit = U("solRad") /\ Archive["pl_orbsmax"].unit = U("AU")
  /\ ns["teq"][1].unit = U("K")

\* A radius over a period: computed, and not a temperature.
C3_WitnessMismatch ==
  /\ last = 6 /\ err = NoErr /\ RowCount(Archive) = 1
  /\ Archive["pl_orbsmax"].unit = U("d")
  /\ ns["teq"][1].unit # U("K")

\* C5: a cell that reads a column the table lacks stops with KeyError naming
\* it, and nothing stands in for the column: cell 3 displays nothing, cell 5
\* binds no mask and plots nothing, cell 6 binds no teq.
C5_MissingColumn ==
  /\ (last = 3 /\ Bound("archive") /\ ~Has("pl_orbper")) =>
       (err = [kind |-> "KeyError", what |-> "pl_orbper"] /\ out = <<>>)
  /\ (last = 5 /\ Bound("archive") /\ ~Has("pl_discmethod")) =>
       /\ err = [kind |-> "KeyError", what |-> "pl_discmethod"]
       /\ ~Bound("transits") /\ ~Bound("rvs") /\ figure = <<>>
  /\ (last = 6 /\ Bound("archive") /\ ~TeqReady) =>
       /\ err.kind = "KeyError" /\ err.what \in TeqInputs \ DOMAIN Archive
       /\ ~Bound("teq") /\ figure = <<>>
  /\ \A name \in {"teff", "rstar", "a"} :
       Bound(name) => ns[name][1] \in {Archive[c] : c \in TeqInputs \cap DOMAIN Archive}

\* st_rad is missing: teff is bound, the cell stops at rstar.
C5_Witness ==
  /\ last = 6 /\ Bound("archive") /\ ~Has("st_rad")
  /\ err = [kind |-> "KeyError", what |-> "st_rad"]
  /\ Bound("teff") /\ ~Bound("rstar")

\* C10: with the table downloaded, no cell of a top-to-bottom run stops on a
\* name that is not defined.
C10_NamesBound ==
  (pc > 1 /\ Bound("archive")) => err.kind # "NameError"

====
